---- MODULE Spec2Model ----
(***************************************************************************)
(* Model of the batch driver of the Video Compressor (src/main.py):        *)
(* the presentation (Tk main) thread with its handlers, the update queue,   *)
(* and the worker thread running process_video_files / compress_video      *)
(* against the external probe (ffprobe) and encoder (ffmpeg) tools.        *)
(***************************************************************************)
EXTENDS Integers, Sequences, FiniteSets, TLC

\* ------------------------------------------------------------------ bounds
\* most video files in the input tree of one run
MaxFiles == 3
\* most batches started in one run (worker threads ever created)
MaxBatches == 2
\* most telemetry lines the worker reads from one encoder process
MaxLines == 1
\* the clock stops advancing here (seconds)
MaxTime == 20
\* most events waiting in update_queue (the worker waits for the main thread
\* to catch up before it puts more)
MaxQueue == 3
\* most changes the user makes to the setting controls in one run
MaxEdits == 2
\* most files in the input tree of the runs in which settings are changed
MaxTree == 2
\* most files in the input tree of the runs checked for progress to the end
MaxLiveTree == 3
\* the lines a pipe holds before a write to it blocks
PipeCapacity == 2
\* most lines an encoder writes to one of its streams
MaxOutput == 3

\* ------------------------------------------------- class-level constants
VIDEO_EXTENSIONS == {".mp4", ".mov", ".avi", ".mkv", ".wmv", ".flv", ".webm", ".m4v", ".3gp"}

OUTPUT_FORMATS == <<"mp4", "mkv", "webm">>

\* QUALITY_LEVELS: preset name -> CRF string (a sequence of characters)
QUALITY_PRESETS == <<"High (larger file)", "Medium", "Low (smaller file)", "Custom">>

QUALITY_LEVELS(p) ==
    CASE p = "High (larger file)" -> <<"1", "8">>
      [] p = "Medium"             -> <<"2", "3">>
      [] p = "Low (smaller file)" -> <<"2", "8">>
      [] p = "Custom"             -> <<"c", "u", "s", "t", "o", "m">>

RESOLUTIONS == <<"Original", "4K (3840x2160)", "1080p (1920x1080)",
                 "720p (1280x720)", "480p (854x480)">>

\* ------------------------------------------------------------ strings
\* int(s) of Python on the strings the CRF entry can hold: surrounding
\* blanks stripped, an optional sign, then one or more decimal digits.
DigitOf(c) ==
    CASE c = "0" -> 0 [] c = "1" -> 1 [] c = "2" -> 2 [] c = "3" -> 3
      [] c = "4" -> 4 [] c = "5" -> 5 [] c = "6" -> 6 [] c = "7" -> 7
      [] c = "8" -> 8 [] c = "9" -> 9 [] OTHER -> -1

RECURSIVE Strip(_)
Strip(s) ==
    IF s = <<>> THEN s
    ELSE IF Head(s) = " " THEN Strip(Tail(s))
    ELSE IF s[Len(s)] = " " THEN Strip(SubSeq(s, 1, Len(s) - 1))
    ELSE s

RECURSIVE DigitsValue(_, _)
DigitsValue(s, acc) ==
    IF s = <<>> THEN acc
    ELSE DigitsValue(Tail(s), 10 * acc + DigitOf(Head(s)))

AllDigits(s) == s # <<>> /\ \A i \in 1..Len(s) : DigitOf(s[i]) >= 0

\* [ok |-> FALSE] models ValueError
ParseInt(str) ==
    LET s == Strip(str)
        signed == s # <<>> /\ Head(s) \in {"-", "+"}
        body == IF signed THEN Tail(s) ELSE s
    IN  IF AllDigits(body)
        THEN [ok |-> TRUE,
              val |-> IF signed /\ Head(s) = "-" THEN 0 - DigitsValue(body, 0)
                      ELSE DigitsValue(body, 0)]
        ELSE [ok |-> FALSE, val |-> 0]

Digit(n) == <<"0", "1", "2", "3", "4", "5", "6", "7", "8", "9">>[n + 1]

RECURSIVE IntToStr(_)
IntToStr(n) == IF n < 10 THEN <<Digit(n)>> ELSE IntToStr(n \div 10) \o <<Digit(n % 10)>>

TwoDigits(n) == <<Digit((n \div 10) % 10), Digit(n % 10)>>

\* str(timedelta(seconds=n)) for 0 <= n < 86400: "H:MM:SS", hours unpadded
FormatTimedelta(n) ==
    IntToStr(n \div 3600) \o <<":">> \o TwoDigits((n % 3600) \div 60)
        \o <<":">> \o TwoDigits(n % 60)

TimeUnknown == <<"-", "-", ":", "-", "-", ":", "-", "-">>
TimeZero == <<"0", "0", ":", "0", "0", ":", "0", "0">>

\* -------------------------------------------------------------- paths
\* A file of the input tree: the directories below the root, the name's stem
\* and its extension (with its dot; os.path.splitext splits at the last dot).
TreeFile(d, s, e) == [dir |-> d, stem |-> s, ext |-> e]

\* the files the input tree may hold, in the order they are added to it
TreeFiles ==
    << TreeFile(<<>>, "a", ".mp4"),
       TreeFile(<<>>, "notes", ".txt"),
       TreeFile(<<>>, "a", ".MOV"),
       TreeFile(<<"sub">>, "a", ".mkv"),
       TreeFile(<<>>, "b", ".mp4") >>

\* str.lower() on the extensions that occur
Lower(e) ==
    CASE e = ".MOV" -> ".mov"
      [] e = ".MP4" -> ".mp4"
      [] OTHER -> e

\* code points of the path components that occur (sorted() compares them)
Codes(tok) ==
    CASE tok = "in"    -> <<105, 110>>
      [] tok = "sub"   -> <<115, 117, 98>>
      [] tok = "a"     -> <<97>>
      [] tok = "b"     -> <<98>>
      [] tok = "notes" -> <<110, 111, 116, 101, 115>>
      [] tok = ".mp4"  -> <<46, 109, 112, 52>>
      [] tok = ".MOV"  -> <<46, 77, 79, 86>>
      [] tok = ".mkv"  -> <<46, 109, 107, 118>>
      [] tok = ".txt"  -> <<46, 116, 120, 116>>
      [] OTHER         -> <<>>

RECURSIVE JoinCodes(_)
JoinCodes(comps) ==
    IF comps = <<>> THEN <<>>
    ELSE Codes(Head(comps)) \o <<47>> \o JoinCodes(Tail(comps))

\* os.path.join(root, file) as the string sorted() sees
PathString(f) == JoinCodes(<<f.root>> \o f.dir) \o Codes(f.stem) \o Codes(f.ext)

RECURSIVE LexLess(_, _)
LexLess(s, t) ==
    IF t = <<>> THEN FALSE
    ELSE IF s = <<>> THEN TRUE
    ELSE IF Head(s) # Head(t) THEN Head(s) < Head(t)
    ELSE LexLess(Tail(s), Tail(t))

RECURSIVE Sorted(_)
Sorted(S) ==
    IF S = {} THEN <<>>
    ELSE LET m == CHOOSE x \in S :
                    \A y \in S \ {x} : LexLess(PathString(x), PathString(y))
         IN  <<m>> \o Sorted(S \ {m})

\* find_video_files(directory): the files of the tree whose lower-cased
\* extension is in the allow-list, as full paths, sorted
find_video_files(directory, tree) ==
    Sorted({ [root |-> directory, dir |-> f.dir, stem |-> f.stem, ext |-> f.ext] :
             f \in { g \in tree : Lower(g.ext) \in VIDEO_EXTENSIONS } })

NoFile == [root |-> "", dir |-> <<>>, stem |-> "", ext |-> ""]

\* os.path.basename(input_file)
Basename(f) == <<f.stem, f.ext>>

\* os.path.relpath(input_file, base), its directory part (both are siblings
\* when the base is not the root the file was found under)
RelDir(f, base) == IF f.root = base THEN f.dir ELSE <<"..", f.root>> \o f.dir

\* os.path.join(output_dir, os.path.splitext(rel_path)[0] + '.' + fmt);
\* ext holds the format that follows the dot
OutputFile(f, base, outdir, fmt) ==
    [root |-> outdir, dir |-> RelDir(f, base), stem |-> f.stem, ext |-> fmt]

\* re.search(r'(\d+x\d+)', resolution): the first WxH of the preset name
ScaleOf(r) ==
    CASE r = "4K (3840x2160)"    -> "3840x2160"
      [] r = "1080p (1920x1080)" -> "1920x1080"
      [] r = "720p (1280x720)"   -> "1280x720"
      [] r = "480p (854x480)"    -> "854x480"
      [] OTHER                   -> ""

\* ---------------------------------------------------------------- state
VARIABLES
    fs,               \* the files of the input tree
    now,              \* time.time(), in seconds
    input_dir, output_dir, output_format, quality_preset, custom_crf, resolution,
    current_file_var, progress_text, time_remaining, status_var,
    file_progress, overall_progress, start_button, cancel_button,
    is_processing, cancel_requested, video_files, update_queue,
    threads,          \* every worker thread created, in order of creation
    draining,         \* the main thread is inside check_update_queue's loop
    last_start,       \* what the last press of Start came to
    edits             \* changes made to the setting controls so far

settings == <<input_dir, output_dir, output_format, quality_preset, custom_crf, resolution>>
labels == <<current_file_var, progress_text, time_remaining, status_var>>
bars == <<file_progress, overall_progress>>
buttons == <<start_button, cancel_button>>
presentation == <<labels, bars, buttons>>
app == <<is_processing, cancel_requested, video_files, update_queue, threads>>
vars == <<fs, now, settings, presentation, app, draining, last_start, edits>>

\* the texts status_var takes: the fixed part, a name, a count
Status(m, nm, k) == [msg |-> m, name |-> nm, n |-> k]
Ready == Status("Ready", <<>>, 0)
NoFileProcessing == <<"No file processing">>
\* f"{processed}/{total} files processed"
ProgressText(p, t) == [processed |-> p, total |-> t]

\* the events of update_queue
LabelEvent(v, txt) == [type |-> "label", var |-> v, text |-> txt, value |-> 0, flag |-> FALSE]
ProgressEvent(bar, x) == [type |-> "progress", var |-> bar, text |-> Ready, value |-> x, flag |-> FALSE]
UiStateEvent(b) == [type |-> "ui_state", var |-> "", text |-> Ready, value |-> 0, flag |-> b]
MessageEvent(txt) == [type |-> "message", var |-> "", text |-> txt, value |-> 0, flag |-> FALSE]

\* the Job Settings as the setting controls hold them; crf is the value
\* get_ffmpeg_command takes from the quality controls
CurrentJob ==
    [ input_dir |-> input_dir, output_dir |-> output_dir, output_format |-> output_format,
      crf |-> IF quality_preset = "Custom" THEN custom_crf ELSE QUALITY_LEVELS(quality_preset),
      resolution |-> resolution ]

NoJob == [input_dir |-> "", output_dir |-> "", output_format |-> "", crf |-> <<>>, resolution |-> ""]

\* the argument vector get_ffmpeg_command builds from given settings, with
\* -progress pipe:1 inserted
BuildCommand(job, input_file, output_file) ==
    LET crf == job.crf
        fmt == job.output_format
    IN  [ progress |-> "pipe:1",
          i   |-> input_file,
          vf  |-> IF job.resolution # "Original" THEN ScaleOf(job.resolution) ELSE "",
          cv  |-> CASE fmt = "mp4" -> "libx264" [] fmt = "webm" -> "libvpx-vp9"
                    [] fmt = "mkv" -> "libx264" [] OTHER -> "",
          crf |-> crf,
          opt |-> CASE fmt = "mp4" -> <<"-preset", "medium">> [] fmt = "webm" -> <<"-b:v", "0">>
                    [] fmt = "mkv" -> <<"-preset", "medium">> [] OTHER -> <<>>,
          ca  |-> "aac",
          ba  |-> "128k",
          out |-> output_file ]

\* get_ffmpeg_command(input_file, output_file): the setting controls are
\* read at the time of the call
get_ffmpeg_command(input_file, output_file) == BuildCommand(CurrentJob, input_file, output_file)

NoCommand ==
    [progress |-> "", i |-> NoFile, vf |-> "", cv |-> "", crf |-> <<>>, opt |-> <<>>,
     ca |-> "", ba |-> "", out |-> NoFile]

\* ---------------------------------------------------------------- worker
\* what the tools did for the file the worker is at: the probe's outcome,
\* whether the encoder was launched and with which command, the progress
\* updates put for it, the encoder's exit code
NoRun == [probe |-> "none", launched |-> FALSE, cmd |-> NoCommand, updates |-> 0, rc |-> -1]

\* The encoder process of subprocess.Popen and its two pipes: the lines it
\* has still to write to stdout and to stderr, the lines waiting in each
\* pipe, the write call it is in (at), its exit code once it has exited.
NoProc == [state |-> "none", out_left |-> 0, err_left |-> 0,
           out_pipe |-> 0, err_pipe |-> 0, at |-> "idle", rc |-> -1]

\* One worker thread: its position in process_video_files / compress_video,
\* its locals, and the record of what it ran: job (the settings its batch was
\* started with), tasks (the files it reached, in order, with their
\* destinations), run (the tools' doings for the current file), the counts of
\* encoders that exited zero and non-zero, outputs (the destinations written
\* by the encoders that exited zero), dialogs (the error-dialog events the
\* thread has put), cancel_at, terminal.
NewThread(job) ==
    [ pc |-> "start", files |-> <<>>, total_files |-> 0, idx |-> 0,
      processed_files |-> 0, failed_files |-> 0, start_time |-> 0,
      input_file |-> NoFile, output_file |-> NoFile, duration |-> -1,
      lines |-> 0, result |-> FALSE, error |-> "", proc |-> NoProc,
      job |-> job, tasks |-> <<>>, run |-> NoRun, exit_zero |-> 0, exit_nonzero |-> 0,
      outputs |-> {}, dialogs |-> 0, cancel_at |-> 0, terminal |-> "none" ]

DeadThread == [NewThread(NoJob) EXCEPT !.pc = "done"]

Alive(t) == threads[t].pc # "done"
Workers == { t \in DOMAIN threads : Alive(t) }

\* the record of one file reached by the worker
NewTask(f, out) == [file |-> f, out |-> out]

Init ==
    /\ \E n \in 0..Len(TreeFiles) :
          /\ fs = { TreeFiles[i] : i \in 1..n }
          /\ Cardinality({ f \in fs : Lower(f.ext) \in VIDEO_EXTENSIONS }) <= MaxFiles
    /\ now = 0
    /\ input_dir = ""
    /\ output_dir = ""
    /\ output_format = OUTPUT_FORMATS[1]
    /\ quality_preset = QUALITY_PRESETS[2]
    /\ custom_crf = <<"2", "3">>
    /\ resolution = RESOLUTIONS[1]
    /\ current_file_var = NoFileProcessing
    /\ progress_text = ProgressText(0, 0)
    /\ time_remaining = TimeUnknown
    /\ status_var = Ready
    /\ file_progress = 0
    /\ overall_progress = 0
    /\ start_button = "normal"
    /\ cancel_button = "disabled"
    /\ is_processing = FALSE
    /\ cancel_requested = FALSE
    /\ video_files = <<>>
    /\ update_queue = <<>>
    /\ threads = <<>>
    /\ draining = FALSE
    /\ last_start = "none"
    /\ edits = 0

\* ------------------------------------------------------- environment
\* the directories that exist and can be chosen in a directory dialog
ExistingDirs == {"in"}
\* os.makedirs: the directory is there afterwards, or OSError is raised
MkdirOutcomes == {"ok", "OSError"}
\* the probe tool: prints a duration, prints something float() rejects,
\* exits non-zero (CalledProcessError), or cannot be run (OSError)
ProbeOutcomes == {"ok", "unparseable", "nonzero", "cannot_run"}
\* the durations (seconds) the probe tool prints
Durations == {10}
\* the encoder's exit codes
ExitCodes == {0, 1}
\* 'out_time_ms='
OutTimeMs == <<"o", "u", "t", "_", "t", "i", "m", "e", "_", "m", "s", "=">>
\* the elapsed times (microseconds) the encoder reports
TelemetryValues == {5000000, 20000000}
\* the lines 'out_time_ms=<integer>' of the encoder
IntegerLines == { OutTimeMs \o IntToStr(n) : n \in TelemetryValues }
\* the lines the encoder prints on its progress pipe: the elapsed time,
\* 'out_time_ms=N/A', 'frame=1' and 'progress=end'
TelemetryLines ==
    IntegerLines \cup
    { OutTimeMs \o <<"N", "/", "A">>,
      <<"f", "r", "a", "m", "e", "=", "1">>,
      <<"p", "r", "o", "g", "r", "e", "s", "s", "=", "e", "n", "d">> }
\* what the user can type into the custom CRF entry
CrfInputs ==
    { <<"0">>, <<"5", "1">>, <<"-", "1">>, <<"5", "2">>, <<"a", "b", "c">> }
\* the steps the clock advances by
ClockSteps == {10}

\* ------------------------------------------------ presentation thread
StartButtonStuck(processing) == "normal"

\* update_ui_state: widget.configure(state=...) of the start button
StartButtonState(processing) == IF processing THEN "disabled" ELSE "normal"

\* update_ui_state: widget.configure(state=...) of the cancel button
CancelButtonState(processing) == IF processing THEN "normal" ELSE "disabled"

\* update_ui_state(processing), run on the main thread
update_ui_state(processing) ==
    /\ start_button' = StartButtonState(processing)
    /\ cancel_button' = CancelButtonState(processing)
    /\ IF ~processing
       THEN /\ file_progress' = 0
            /\ overall_progress' = 0
            /\ current_file_var' = NoFileProcessing
            /\ progress_text' = ProgressText(0, 0)
            /\ time_remaining' = TimeUnknown
            /\ status_var' = Ready
       ELSE UNCHANGED <<labels, bars>>

\* check_update_queue, one turn of its loop: get_nowait() returns an event
\* and the event is applied
CheckUpdateQueue ==
    /\ update_queue # <<>>
    /\ draining' = TRUE
    /\ update_queue' = Tail(update_queue)
    /\ LET ev == Head(update_queue)
       IN  CASE ev.type = "ui_state" -> update_ui_state(ev.flag)
             [] ev.type = "label" ->
                    /\ status_var' = ev.text
                    /\ UNCHANGED <<current_file_var, progress_text, time_remaining, bars, buttons>>
             [] ev.type = "progress" ->
                    /\ file_progress' = ev.value
                    /\ UNCHANGED <<labels, overall_progress, buttons>>
             [] OTHER -> UNCHANGED presentation
    /\ UNCHANGED <<fs, now, settings, is_processing, cancel_requested, video_files,
                   threads, last_start, edits>>

\* check_update_queue: get_nowait() raises queue.Empty, the loop is left and
\* the next check is scheduled
CheckUpdateQueueEmpty ==
    /\ draining
    /\ update_queue = <<>>
    /\ draining' = FALSE
    /\ UNCHANGED <<fs, now, settings, presentation, app, last_start, edits>>

\* os.path.join(os.path.dirname(directory), os.path.basename(directory) + "_compressed")
SuggestedOutput(d) == CASE d = "in" -> "in_compressed" [] OTHER -> "_compressed"

\* browse_input_dir: a directory is chosen; the output directory is
\* suggested when none is set
BrowseInputDir ==
    /\ ~draining
    /\ \E d \in ExistingDirs :
          /\ input_dir # d
          /\ input_dir' = d
          /\ output_dir' = IF output_dir = "" THEN SuggestedOutput(d) ELSE output_dir
    /\ UNCHANGED <<fs, now, output_format, quality_preset, custom_crf, resolution,
                   presentation, app, draining, last_start, edits>>

CrfInRangeLax(v) == 0 <= v /\ v <= 52

\* validate_inputs: 0 <= crf_value <= 51
CrfInRange(v) == 0 <= v /\ v <= 51

\* validate_inputs up to its verdict; video_files is assigned on the way
ValidationVerdict(mk) ==
    IF input_dir = "" \/ input_dir \notin ExistingDirs THEN "InvalidDirectory"
    ELSE IF output_dir = "" THEN "InvalidDirectory"
    ELSE IF mk = "OSError" THEN "InvalidDirectory"
    ELSE IF find_video_files(input_dir, fs) = <<>> THEN "NoVideoFiles"
    ELSE IF quality_preset = "Custom"
         THEN LET crf_value == ParseInt(custom_crf)
              IN  IF ~crf_value.ok THEN "InvalidQuality"
                  ELSE IF ~CrfInRange(crf_value.val) THEN "InvalidQuality"
                  ELSE "valid"
    ELSE "valid"

CancelRequestedKept == cancel_requested

\* start_compression, line 423: self.cancel_requested = False
CancelRequestedAtStart == FALSE

\* the Start button pressed while it is disabled: Tk drops the press
StartIgnored ==
    /\ ~draining
    /\ start_button = "disabled"
    /\ last_start' = "ignored"
    /\ UNCHANGED <<fs, now, settings, presentation, app, draining, edits>>

\* start_compression, the command of the Start button
start_compression ==
    /\ ~draining
    /\ start_button = "normal"
    /\ Len(threads) < MaxBatches
    /\ IF is_processing
       THEN /\ last_start' = "busy"
            /\ UNCHANGED <<presentation, app>>
       ELSE \E mk \in MkdirOutcomes :
            LET verdict == ValidationVerdict(mk)
                found == verdict \in {"NoVideoFiles", "InvalidQuality", "valid"}
            IN  /\ last_start' = verdict
                /\ video_files' = IF found THEN find_video_files(input_dir, fs) ELSE video_files
                /\ IF verdict = "valid"
                   THEN /\ is_processing' = TRUE
                        /\ cancel_requested' = CancelRequestedAtStart
                        /\ update_ui_state(TRUE)
                        /\ threads' = Append(threads, NewThread(CurrentJob))
                        /\ UNCHANGED update_queue
                   ELSE UNCHANGED <<presentation, is_processing, cancel_requested,
                                    update_queue, threads>>
    /\ UNCHANGED <<fs, now, settings, draining, edits>>

Cancelling == Status("Cancelling... (waiting for current file to finish)", <<>>, 0)

\* cancel_compression, the command of the Cancel button; cancel_at notes the
\* task whose encoder is running when the request is accepted
cancel_compression ==
    /\ ~draining
    /\ cancel_button = "normal"
    /\ is_processing
    /\ cancel_requested' = TRUE
    /\ status_var' = Cancelling
    /\ threads' = [t \in DOMAIN threads |->
                     IF threads[t].pc = "poll"
                     THEN [threads[t] EXCEPT !.cancel_at = threads[t].idx]
                     ELSE threads[t]]
    /\ UNCHANGED <<fs, now, settings, current_file_var, progress_text, time_remaining,
                   bars, buttons, is_processing, video_files, update_queue,
                   draining, last_start, edits>>

\* the user changes a setting control (they stay enabled during a batch)
BrowseOutputDir ==
    /\ ~draining /\ edits < MaxEdits
    /\ output_dir # "out"
    /\ output_dir' = "out"
    /\ edits' = edits + 1
    /\ UNCHANGED <<fs, now, input_dir, output_format, quality_preset, custom_crf,
                   resolution, presentation, app, draining, last_start>>

SelectFormat ==
    /\ ~draining /\ edits < MaxEdits
    /\ \E i \in DOMAIN OUTPUT_FORMATS :
          /\ OUTPUT_FORMATS[i] # output_format
          /\ output_format' = OUTPUT_FORMATS[i]
    /\ edits' = edits + 1
    /\ UNCHANGED <<fs, now, input_dir, output_dir, quality_preset, custom_crf,
                   resolution, presentation, app, draining, last_start>>

\* the quality combobox, with update_quality_controls bound to its selection
SelectQuality ==
    /\ ~draining /\ edits < MaxEdits
    /\ \E i \in DOMAIN QUALITY_PRESETS :
          LET p == QUALITY_PRESETS[i]
          IN  /\ p # quality_preset
              /\ quality_preset' = p
              /\ custom_crf' = IF p = "Custom" THEN custom_crf ELSE QUALITY_LEVELS(p)
    /\ edits' = edits + 1
    /\ UNCHANGED <<fs, now, input_dir, output_dir, output_format,
                   resolution, presentation, app, draining, last_start>>

\* the CRF entry, enabled while the preset is Custom
TypeCustomCrf ==
    /\ ~draining /\ edits < MaxEdits
    /\ quality_preset = "Custom"
    /\ \E s \in CrfInputs :
          /\ s # custom_crf
          /\ custom_crf' = s
    /\ edits' = edits + 1
    /\ UNCHANGED <<fs, now, input_dir, output_dir, output_format, quality_preset,
                   resolution, presentation, app, draining, last_start>>

SelectResolution ==
    /\ ~draining /\ edits < MaxEdits
    /\ \E i \in DOMAIN RESOLUTIONS :
          /\ RESOLUTIONS[i] # resolution
          /\ resolution' = RESOLUTIONS[i]
    /\ edits' = edits + 1
    /\ UNCHANGED <<fs, now, input_dir, output_dir, output_format, quality_preset,
                   custom_crf, presentation, app, draining, last_start>>

\* ------------------------------------------------------ worker thread
Put(ev) == update_queue' = Append(update_queue, ev)
\* the queue has room for k more events
Room(k) == Len(update_queue) + k <= MaxQueue

\* (a / b) * 100 of the progress bars, to the whole percent
Percent(a, b) == (100 * a) \div b

Min(a, b) == IF a <= b THEN a ELSE b

\* process_video_files, lines 442-447: the locals
WorkerStart(t) ==
    /\ threads[t].pc = "start"
    /\ threads' = [threads EXCEPT ![t] =
          [@ EXCEPT !.pc = "loop", !.files = video_files, !.total_files = Len(video_files),
                    !.idx = 1, !.start_time = now]]
    /\ UNCHANGED <<fs, now, settings, presentation, is_processing, cancel_requested,
                   video_files, update_queue, draining, last_start, edits>>

\* the cancellation check at the head of the loop
CancelObservedNever(w) == FALSE

CancelObserved(w) == cancel_requested

\* lines 450-452: the next file of the list, unless the list is exhausted or
\* cancellation is requested
WorkerLoop(t) ==
    LET w == threads[t]
    IN  /\ w.pc = "loop"
        /\ threads' = [threads EXCEPT ![t] =
              IF w.idx > Len(w.files) \/ CancelObserved(w)
              THEN [w EXCEPT !.pc = "final"]
              ELSE [w EXCEPT !.pc = "prep", !.input_file = w.files[w.idx]]]
        /\ UNCHANGED <<fs, now, settings, presentation, is_processing, cancel_requested,
                       video_files, update_queue, draining, last_start, edits>>

\* lines 454-469: the output path, its directory, and the labels and the bar
\* of the current file, set by the worker itself
WorkerPrepare(t) ==
    LET w == threads[t]
        output_file == OutputFile(w.input_file, input_dir, output_dir, output_format)
        filename == Basename(w.input_file)
    IN  /\ w.pc = "prep"
        /\ \E mk \in MkdirOutcomes :
              IF mk = "OSError"
              THEN /\ threads' = [threads EXCEPT ![t] = [w EXCEPT !.pc = "except", !.error = mk]]
                   /\ UNCHANGED presentation
              ELSE /\ threads' = [threads EXCEPT ![t] =
                          [w EXCEPT !.pc = "probe", !.output_file = output_file, !.run = NoRun,
                                    !.duration = -1,
                                    !.tasks = Append(w.tasks, NewTask(w.input_file, output_file))]]
                   /\ current_file_var' = filename
                   /\ progress_text' = ProgressText(w.processed_files, w.total_files)
                   /\ status_var' = Status("Compressing: ", filename, 0)
                   /\ file_progress' = 0
                   /\ UNCHANGED <<time_remaining, overall_progress, buttons>>
        /\ UNCHANGED <<fs, now, settings, is_processing, cancel_requested,
                       video_files, update_queue, draining, last_start, edits>>

\* compress_video, lines 519-528 and 572-575: the duration probe
WorkerProbe(t) ==
    LET w == threads[t]
    IN  /\ w.pc = "probe"
        /\ \E po \in ProbeOutcomes, d \in Durations :
              IF po \in {"nonzero", "cannot_run"}
              THEN /\ Room(1)
                   /\ threads' = [threads EXCEPT ![t] =
                          [w EXCEPT !.pc = "result", !.result = FALSE, !.run.probe = po]]
                   /\ Put(LabelEvent("status_var", Status("Error: ", <<po>>, 0)))
              ELSE /\ threads' = [threads EXCEPT ![t] =
                          [w EXCEPT !.pc = "popen", !.run.probe = po,
                                    !.duration = IF po = "ok" THEN d ELSE 0]]
                   /\ UNCHANGED update_queue
        /\ UNCHANGED <<fs, now, settings, presentation, is_processing, cancel_requested,
                       video_files, draining, last_start, edits>>

\* lines 530-545: the command is built from the setting controls and the
\* encoder is launched
Popen(t, process) ==
    LET w == threads[t]
        cmd == get_ffmpeg_command(w.input_file, w.output_file)
    IN  /\ w.pc = "popen"
        /\ threads' = [threads EXCEPT ![t] =
              [w EXCEPT !.pc = "poll", !.lines = 0, !.run.launched = TRUE, !.run.cmd = cmd,
                        !.proc = process]]
        /\ UNCHANGED <<fs, now, settings, presentation, is_processing, cancel_requested,
                       video_files, update_queue, draining, last_start, edits>>

\* the encoder seen from outside: it prints lines and exits
WorkerPopen(t) == Popen(t, NoProc)

\* str.startswith
StartsWith(s, p) == Len(s) >= Len(p) /\ SubSeq(s, 1, Len(p)) = p

\* str.split('='): the fields between the '=' signs
RECURSIVE Split(_, _)
Split(s, cur) ==
    IF s = <<>> THEN <<cur>>
    ELSE IF Head(s) = "=" THEN <<cur>> \o Split(Tail(s), <<>>)
    ELSE Split(Tail(s), Append(cur, Head(s)))

\* float(s) on the values the encoder prints: a decimal integer gives its
\* value, the other values that occur ('N/A') raise ValueError
ParseFloat(s) == ParseInt(s)

ProgressOfUnclamped(value, duration) == (100 * value) \div (1000000 * duration)

\* min(100, (current_time / duration) * 100), current_time = value / 1000000,
\* to the whole percent
ProgressOf(value, duration) == Min(100, (100 * value) \div (1000000 * duration))

\* lines 547-559, one turn of the loop with the line ln read: the progress
\* update it leads to, if any; next_pc is where the worker goes on
Line(t, ln, next_pc, process) ==
    LET w == threads[t]
        output_line == Strip(ln)
        v == ParseFloat(Split(output_line, <<>>)[2])
        emits == StartsWith(output_line, OutTimeMs) /\ v.ok /\ w.duration > 0
    IN  /\ emits => Room(1)
        /\ threads' = [threads EXCEPT ![t] =
              [w EXCEPT !.pc = next_pc, !.proc = process, !.lines = w.lines + 1,
                        !.run.updates = IF emits THEN @ + 1 ELSE @]]
        /\ IF emits
           THEN Put(ProgressEvent("file_progress", ProgressOf(v.val, w.duration)))
           ELSE UNCHANGED update_queue

ReadLine(t, ln) == Line(t, ln, threads[t].pc, threads[t].proc)

\* lines 546-559: the encoder is still running and a line is read
WorkerReadLine(t) ==
    /\ threads[t].pc = "poll"
    /\ threads[t].lines < MaxLines
    /\ \E ln \in TelemetryLines : ReadLine(t, ln)
    /\ UNCHANGED <<fs, now, settings, presentation, is_processing, cancel_requested,
                   video_files, draining, last_start, edits>>

\* lines 561-570: poll() has returned the exit code rc
Exit(t, rc) ==
    LET w == threads[t]
    IN  /\ w.pc = "poll"
        /\ Room(1)
        /\ threads' = [threads EXCEPT ![t] =
              [w EXCEPT !.pc = "result", !.result = (rc = 0), !.run.rc = rc,
                        !.exit_zero = IF rc = 0 THEN @ + 1 ELSE @,
                        !.outputs = IF rc = 0 THEN @ \cup {w.output_file} ELSE @,
                        !.exit_nonzero = IF rc # 0 THEN @ + 1 ELSE @,
                        !.proc = NoProc]]
        /\ IF rc # 0
           THEN Put(LabelEvent("status_var",
                               Status("Error compressing ", Basename(w.input_file), 0)))
           ELSE Put(ProgressEvent("file_progress", 100))
        /\ UNCHANGED <<fs, now, settings, presentation, is_processing, cancel_requested,
                       video_files, draining, last_start, edits>>

\* lines 546 and 561-570: the encoder has exited
WorkerExit(t) == \E rc \in ExitCodes : Exit(t, rc)

\* int(avg_time_per_file * remaining_files), avg = elapsed / processed
EstimateRemaining(elapsed, processed, total) == (elapsed * (total - processed)) \div processed

\* lines 474-491: the counts, the overall bar and the time estimate
WorkerResult(t) ==
    LET w == threads[t]
        processed == IF w.result THEN w.processed_files + 1 ELSE w.processed_files
        failed == IF w.result THEN w.failed_files ELSE w.failed_files + 1
    IN  /\ w.pc = "result"
        /\ threads' = [threads EXCEPT ![t] =
              [w EXCEPT !.pc = "loop", !.idx = w.idx + 1,
                        !.processed_files = processed, !.failed_files = failed]]
        /\ overall_progress' = Percent(processed, w.total_files)
        /\ time_remaining' =
              IF processed > 0
              THEN FormatTimedelta(EstimateRemaining(now - w.start_time, processed, w.total_files))
              ELSE time_remaining
        /\ UNCHANGED <<fs, now, settings, current_file_var, progress_text, status_var,
                       file_progress, buttons, is_processing, cancel_requested,
                       video_files, update_queue, draining, last_start, edits>>

\* lines 493-502: the final update
WorkerFinal(t) ==
    LET w == threads[t]
    IN  /\ w.pc = "final"
        /\ IF cancel_requested
           THEN /\ status_var' = Status("Compression cancelled.", <<>>, 0)
                /\ threads' = [threads EXCEPT ![t] = [w EXCEPT !.pc = "finally", !.terminal = "Cancelled"]]
                /\ UNCHANGED <<progress_text, time_remaining>>
           ELSE /\ progress_text' = ProgressText(w.processed_files, w.total_files)
                /\ status_var' = IF w.failed_files > 0
                                 THEN Status("Compression completed with failures.", <<>>, w.failed_files)
                                 ELSE Status("Compression completed successfully!", <<>>, 0)
                /\ time_remaining' = TimeZero
                /\ threads' = [threads EXCEPT ![t] = [w EXCEPT !.pc = "finally", !.terminal = "Completed"]]
        /\ UNCHANGED <<fs, now, settings, current_file_var, bars, buttons, is_processing,
                       cancel_requested, video_files, update_queue, draining, last_start, edits>>

ErrorEventsTwice(e) ==
    << LabelEvent("status_var", Status("Error: ", <<e>>, 0)),
       MessageEvent(Status("An error occurred during compression: ", <<e>>, 0)),
       MessageEvent(Status("An error occurred during compression: ", <<e>>, 0)) >>

\* lines 505-508: the events the handler puts for the exception e
ErrorEvents(e) ==
    << LabelEvent("status_var", Status("Error: ", <<e>>, 0)),
       MessageEvent(Status("An error occurred during compression: ", <<e>>, 0)) >>

\* the error-dialog events among evs
Dialogs(evs) == Cardinality({ i \in DOMAIN evs : evs[i].type = "message" })

\* lines 504-508: an exception left the loop
WorkerExcept(t) ==
    LET w == threads[t]
        evs == ErrorEvents(w.error)
    IN  /\ w.pc = "except"
        /\ Room(Len(evs))
        /\ update_queue' = update_queue \o evs
        /\ threads' = [threads EXCEPT ![t] =
              [w EXCEPT !.pc = "finally", !.terminal = "Failed",
                        !.dialogs = @ + Dialogs(evs)]]
        /\ UNCHANGED <<fs, now, settings, presentation, is_processing, cancel_requested,
                       video_files, draining, last_start, edits>>

\* lines 510-511
WorkerFinally(t) ==
    LET w == threads[t]
    IN  /\ w.pc = "finally"
        /\ is_processing' = FALSE
        /\ threads' = [threads EXCEPT ![t] = [w EXCEPT !.pc = "notify"]]
        /\ UNCHANGED <<fs, now, settings, presentation, cancel_requested,
                       video_files, update_queue, draining, last_start, edits>>

\* lines 513-516, on a thread that is not the main thread; the thread ends
WorkerNotify(t) ==
    /\ threads[t].pc = "notify"
    /\ Room(1)
    /\ Put(UiStateEvent(FALSE))
    /\ threads' = [threads EXCEPT ![t] = DeadThread]
    /\ UNCHANGED <<fs, now, settings, presentation, is_processing, cancel_requested,
                   video_files, draining, last_start, edits>>

\* ------------------------------------------- the encoder and its pipes
\* lines 536-542: Popen with stdout = PIPE and stderr = PIPE; the encoder
\* will write out lines to stdout and err lines to stderr, then exit
WorkerPopenPipes(t) ==
    \E out, err \in 0..MaxOutput :
        Popen(t, [NoProc EXCEPT !.state = "running", !.out_left = out, !.err_left = err])

\* the encoder enters a write to one of its streams
EncoderBegin(t) ==
    LET w == threads[t]
    IN  /\ w.proc.state = "running"
        /\ w.proc.at = "idle"
        /\ \E stream \in {"stdout", "stderr"} :
              /\ (IF stream = "stdout" THEN w.proc.out_left ELSE w.proc.err_left) > 0
              /\ threads' = [threads EXCEPT ![t] = [w EXCEPT !.proc.at = stream]]
        /\ UNCHANGED <<fs, now, settings, presentation, is_processing, cancel_requested,
                       video_files, update_queue, draining, last_start, edits>>

\* the write returns once the pipe has room for the line
EncoderWrite(t) ==
    LET w == threads[t]
    IN  /\ w.proc.state = "running"
        /\ \/ /\ w.proc.at = "stdout"
              /\ w.proc.out_pipe < PipeCapacity
              /\ threads' = [threads EXCEPT ![t] =
                    [w EXCEPT !.proc.at = "idle", !.proc.out_left = @ - 1,
                              !.proc.out_pipe = @ + 1]]
           \/ /\ w.proc.at = "stderr"
              /\ w.proc.err_pipe < PipeCapacity
              /\ threads' = [threads EXCEPT ![t] =
                    [w EXCEPT !.proc.at = "idle", !.proc.err_left = @ - 1,
                              !.proc.err_pipe = @ + 1]]
        /\ UNCHANGED <<fs, now, settings, presentation, is_processing, cancel_requested,
                       video_files, update_queue, draining, last_start, edits>>

\* the encoder has written all it had to write and exits
EncoderExit(t) ==
    LET w == threads[t]
    IN  /\ w.proc.state = "running"
        /\ w.proc.at = "idle"
        /\ w.proc.out_left = 0 /\ w.proc.err_left = 0
        /\ \E rc \in ExitCodes :
              threads' = [threads EXCEPT ![t] =
                  [w EXCEPT !.proc.state = "exited", !.proc.rc = rc]]
        /\ UNCHANGED <<fs, now, settings, presentation, is_processing, cancel_requested,
                       video_files, update_queue, draining, last_start, edits>>

\* line 546: process.poll() is None, the loop body is entered
WorkerPollRunning(t) ==
    LET w == threads[t]
    IN  /\ w.pc = "poll"
        /\ w.proc.state = "running"
        /\ threads' = [threads EXCEPT ![t] = [w EXCEPT !.pc = "readline"]]
        /\ UNCHANGED <<fs, now, settings, presentation, is_processing, cancel_requested,
                       video_files, update_queue, draining, last_start, edits>>

\* line 546: process.poll() returns the exit code; lines 561-570 (on a
\* non-zero code stderr is read to its end, the process being gone)
WorkerPollExited(t) ==
    /\ threads[t].proc.state = "exited"
    /\ Exit(t, threads[t].proc.rc)

\* line 547: process.stdout.readline() returns a line of the pipe, or ''
\* at end of file (the pipe empty and the encoder gone); else it blocks
WorkerReadPipe(t) ==
    LET w == threads[t]
    IN  /\ w.pc = "readline"
        /\ IF w.proc.out_pipe > 0
           THEN \E ln \in TelemetryLines :
                    Line(t, ln, "poll", [w.proc EXCEPT !.out_pipe = @ - 1])
           ELSE /\ w.proc.state = "exited"
                /\ threads' = [threads EXCEPT ![t] = [w EXCEPT !.pc = "poll"]]
                /\ UNCHANGED update_queue
        /\ UNCHANGED <<fs, now, settings, presentation, is_processing, cancel_requested,
                       video_files, draining, last_start, edits>>

\* time passes while an encoder runs
Tick ==
    /\ \E t \in DOMAIN threads : threads[t].pc = "poll"
    /\ \E d \in ClockSteps :
          /\ now + d <= MaxTime
          /\ now' = now + d
    /\ UNCHANGED <<fs, settings, presentation, app, draining, last_start, edits>>

\* ----------------------------------------------------- specifications
\* the batch driver: the presentation thread's handlers and the worker
Next ==
    \/ CheckUpdateQueue
    \/ CheckUpdateQueueEmpty
    \/ BrowseInputDir
    \/ StartIgnored
    \/ start_compression
    \/ cancel_compression
    \/ \E t \in DOMAIN threads : WorkerStart(t)
    \/ \E t \in DOMAIN threads : WorkerLoop(t)
    \/ \E t \in DOMAIN threads : WorkerPrepare(t)
    \/ \E t \in DOMAIN threads : WorkerProbe(t)
    \/ \E t \in DOMAIN threads : WorkerPopen(t)
    \/ \E t \in DOMAIN threads : WorkerExit(t)
    \/ \E t \in DOMAIN threads : WorkerResult(t)
    \/ \E t \in DOMAIN threads : WorkerFinal(t)
    \/ \E t \in DOMAIN threads : WorkerExcept(t)
    \/ \E t \in DOMAIN threads : WorkerFinally(t)
    \/ \E t \in DOMAIN threads : WorkerNotify(t)

Spec == Init /\ [][Next]_vars

\* time passes while the encoders run
NextTime == Next \/ Tick

SpecTime == Init /\ [][NextTime]_vars

\* the encoders print progress lines
NextTelemetry == Next \/ (\E t \in DOMAIN threads : WorkerReadLine(t))

SpecTelemetry == Init /\ [][NextTelemetry]_vars

\* the user changes the settings, before and during batches over a small tree
InitSettings == Init /\ Cardinality(fs) <= MaxTree

NextSettings ==
    \/ Next
    \/ BrowseOutputDir
    \/ SelectFormat
    \/ SelectQuality
    \/ TypeCustomCrf
    \/ SelectResolution

SpecSettings == InitSettings /\ [][NextSettings]_vars

\* the encoders print progress lines, over a small tree
SpecProgress == InitSettings /\ [][NextTelemetry]_vars

\* the steps of the worker threads
WorkerNext ==
    \E t \in DOMAIN threads :
        \/ WorkerStart(t) \/ WorkerLoop(t) \/ WorkerPrepare(t) \/ WorkerProbe(t)
        \/ WorkerPopen(t) \/ WorkerExit(t) \/ WorkerResult(t) \/ WorkerFinal(t)
        \/ WorkerExcept(t) \/ WorkerFinally(t) \/ WorkerNotify(t)

\* the main loop runs check_update_queue every 100 ms (root.after); a started
\* thread keeps running, and every run of the probe and of the encoder
\* returns
Fairness == WF_vars(CheckUpdateQueue) /\ WF_vars(WorkerNext)

InitLive == Init /\ Cardinality(fs) <= MaxLiveTree

SpecLive == InitLive /\ [][Next]_vars /\ Fairness

\* the encoder as a process writing to its two pipes, over a small tree
NextPipes ==
    \/ CheckUpdateQueue
    \/ CheckUpdateQueueEmpty
    \/ BrowseInputDir
    \/ StartIgnored
    \/ start_compression
    \/ cancel_compression
    \/ \E t \in DOMAIN threads : WorkerStart(t)
    \/ \E t \in DOMAIN threads : WorkerLoop(t)
    \/ \E t \in DOMAIN threads : WorkerPrepare(t)
    \/ \E t \in DOMAIN threads : WorkerProbe(t)
    \/ \E t \in DOMAIN threads : WorkerPopenPipes(t)
    \/ \E t \in DOMAIN threads : EncoderBegin(t)
    \/ \E t \in DOMAIN threads : EncoderWrite(t)
    \/ \E t \in DOMAIN threads : EncoderExit(t)
    \/ \E t \in DOMAIN threads : WorkerPollRunning(t)
    \/ \E t \in DOMAIN threads : WorkerReadPipe(t)
    \/ \E t \in DOMAIN threads : WorkerPollExited(t)
    \/ \E t \in DOMAIN threads : WorkerResult(t)
    \/ \E t \in DOMAIN threads : WorkerFinal(t)
    \/ \E t \in DOMAIN threads : WorkerExcept(t)
    \/ \E t \in DOMAIN threads : WorkerFinally(t)
    \/ \E t \in DOMAIN threads : WorkerNotify(t)

SpecPipes == InitSettings /\ [][NextPipes]_vars

\* the user changes the quality controls, while no batch is running
Idle == ~is_processing /\ Workers = {} /\ update_queue = <<>>

NextValidate ==
    \/ Next
    \/ Idle /\ SelectQuality
    \/ Idle /\ TypeCustomCrf

SpecValidate == InitSettings /\ [][NextValidate]_vars

\* -------------------------------------------------------------- claims
\* the worker is past its final update (or its error handler)
AtEnd(w) == w.pc \in {"finally", "notify"}

LastTask(w) == w.tasks[Len(w.tasks)]

\* the Start button is pressed
StartPressed == StartIgnored \/ start_compression

\* a step of a worker thread
WorkerStep ==
    \E t \in DOMAIN threads :
        \/ WorkerStart(t) \/ WorkerLoop(t) \/ WorkerPrepare(t) \/ WorkerProbe(t)
        \/ WorkerPopen(t) \/ WorkerReadLine(t) \/ WorkerExit(t) \/ WorkerResult(t)
        \/ WorkerFinal(t) \/ WorkerExcept(t) \/ WorkerFinally(t) \/ WorkerNotify(t)

\* C1: when a cancel request is accepted while the encoder of task k runs,
\* k < n, the worker goes on only through the end of task k: no file after
\* the k-th is reached (no probe, no encoder), task k's encoder exits and is
\* counted, and the batch ends Cancelled.
C1_CancelStopsAtTaskBoundary ==
    \A t \in DOMAIN threads :
        LET w == threads[t]
            k == w.cancel_at
        IN  (k > 0 /\ k < w.total_files) =>
              /\ cancel_requested
              /\ Len(w.tasks) = k
              /\ w.pc \in {"poll", "result", "loop", "final", "finally", "notify"}
              /\ w.idx = (IF w.pc \in {"poll", "result"} THEN k ELSE k + 1)
              /\ (w.pc \notin {"poll", "result"} =>
                     /\ w.run.rc \in ExitCodes
                     /\ w.processed_files + w.failed_files = k)
              /\ (AtEnd(w) => w.terminal = "Cancelled")

\* a batch of three cancelled during its second task has ended
C1_Witness ==
    \E t \in DOMAIN threads :
        /\ threads[t].cancel_at = 2
        /\ threads[t].total_files = 3
        /\ threads[t].pc = "finally"
        /\ threads[t].terminal = "Cancelled"
        /\ Len(threads[t].tasks) = 2

\* C2: a batch that was not cancelled (and met no unexpected error) ends
\* Completed, having reached every file of the list once and in order, with
\* processed = the encoders that exited zero and failed = those that exited
\* non-zero.
C2_FailedMeansEncoderExitedNonZero ==
    \A t \in DOMAIN threads :
        LET w == threads[t]
        IN  (AtEnd(w) /\ ~cancel_requested /\ w.terminal # "Failed") =>
              /\ w.terminal = "Completed"
              /\ [i \in DOMAIN w.tasks |-> w.tasks[i].file] = w.files
              /\ w.processed_files = w.exit_zero
              /\ w.failed_files = w.exit_nonzero

\* C3: when the probe of a task fails (unparseable output, non-zero exit,
\* cannot be run) the duration is zero, no percentage update is put for the
\* task, the encoder is launched and its exit code decides the result.
C3_ProbeFailureNeverFailsTask ==
    \A t \in DOMAIN threads :
        LET w == threads[t]
        IN  (w.pc = "result" /\ w.run.probe \in {"unparseable", "nonzero", "cannot_run"}) =>
              /\ w.run.launched
              /\ w.duration = 0
              /\ w.run.updates = 0
              /\ w.result = (w.run.rc = 0)

\* C4: at most one worker thread is alive after every step, and a press of
\* Start while a batch is running starts no thread and leaves
\* cancel_requested, the task list and is_processing as they are.
C4_OneBatchAtATime ==
    [][ /\ Cardinality(Workers') <= 1
        /\ (is_processing /\ StartPressed) =>
              UNCHANGED <<threads, cancel_requested, video_files, is_processing>> ]_vars

\* Start was pressed while the one worker of a running batch was alive
C4_Witness ==
    /\ is_processing
    /\ last_start = "ignored"
    /\ Cardinality(Workers) = 1

\* C5: no step of a worker thread changes a label or a progress bar.
C5_WorkerNeverWritesPresentationState ==
    [][WorkerStep => UNCHANGED <<labels, bars>>]_vars

\* C6: every encoder of a batch is launched with the command built from the
\* settings the batch was started with.
C6_SettingsFixedForBatch ==
    \A t \in DOMAIN threads :
        LET w == threads[t]
        IN  w.run.launched =>
              w.run.cmd = BuildCommand(w.job, LastTask(w).file,
                              OutputFile(LastTask(w).file, w.job.input_dir,
                                         w.job.output_dir, w.job.output_format))

\* C7: the destinations of the files a batch has reached are pairwise
\* different.
C7_DestinationsUnique ==
    \A t \in DOMAIN threads :
        \A i, j \in DOMAIN threads[t].tasks :
            i # j => threads[t].tasks[i].out # threads[t].tasks[j].out

\* C8: after each completed task (succeeded or failed) the time-remaining
\* label shows (elapsed / tasks completed) * (tasks not yet attempted).
C8_EstimateAfterEachTask ==
    \A t \in DOMAIN threads :
        LET w == threads[t]
            completed == w.idx - 1
        IN  (w.pc = "loop" /\ completed > 0) =>
              time_remaining =
                  FormatTimedelta(((now - w.start_time) * (w.total_files - completed))
                                      \div completed)

\* the custom values that denote an integer in [0,51]
ValidCustom == { IntToStr(n) : n \in 0..51 }

\* C9: with the Custom preset, Start is accepted only for a custom value
\* that is an integer in [0,51], and is refused for its quality only when
\* the value is not one; "0" and "51" are such values, "-1", "52" and "abc"
\* are not; a refused Start starts no worker, puts no event and leaves
\* is_processing false.
C9_CustomQualityValidated ==
    [][ (~is_processing /\ start_compression /\ quality_preset = "Custom") =>
           /\ {<<"0">>, <<"5", "1">>} \subseteq ValidCustom
           /\ {<<"-", "1">>, <<"5", "2">>, <<"a", "b", "c">>} \cap ValidCustom = {}
           /\ (custom_crf \in ValidCustom =>
                  last_start' \in {"valid", "InvalidDirectory", "NoVideoFiles"})
           /\ (custom_crf \notin ValidCustom =>
                  last_start' \in {"InvalidQuality", "InvalidDirectory", "NoVideoFiles"})
           /\ (last_start' = "valid" <=> threads' # threads)
           /\ (last_start' # "valid" =>
                  /\ ~is_processing'
                  /\ UNCHANGED <<threads, update_queue, cancel_requested, presentation>>) ]_vars

\* Start was refused for the custom value "52", and nothing was started
C9_Witness ==
    /\ last_start = "InvalidQuality"
    /\ quality_preset = "Custom"
    /\ custom_crf = <<"5", "2">>
    /\ threads = <<>>
    /\ ~is_processing

\* C10: a batch all of whose tasks were attempted ends Completed, and a batch
\* ends Cancelled only with a task left that was not started.
C10_TerminalState ==
    \A t \in DOMAIN threads :
        LET w == threads[t]
        IN  AtEnd(w) =>
              /\ (w.processed_files + w.failed_files = w.total_files => w.terminal = "Completed")
              /\ (w.terminal = "Cancelled" => Len(w.tasks) < w.total_files)

\* the worker's exception handler has been entered
Aborted(w) == w.pc = "except" \/ w.terminal = "Failed"

\* C11: once an exception has left the loop of a batch (os.makedirs raised
\* for a file), the worker reaches no further file, runs no further tool and
\* only goes through its handler to its end; the files it reached before all
\* completed and keep their counts and their written destinations; the
\* handler puts one error-dialog event, and no other step puts any.
C11_UnexpectedErrorAbortsBatch ==
    [][ /\ \A t \in DOMAIN threads :
              LET w == threads[t]
                  v == threads'[t]
              IN  Aborted(w) =>
                    /\ v.pc \in {"except", "finally", "notify", "done"}
                    /\ Len(w.tasks) = w.processed_files + w.failed_files
                    /\ Len(w.tasks) < w.total_files
                    /\ Cardinality(w.outputs) <= w.exit_zero
                    /\ (w.exit_zero > 0 => w.outputs # {})
                    /\ (v.pc # "done" =>
                           /\ v.tasks = w.tasks
                           /\ v.outputs = w.outputs
                           /\ v.run = w.run
                           /\ v.processed_files = w.processed_files
                           /\ v.failed_files = w.failed_files
                           /\ v.dialogs = (IF v.pc = "except" THEN 0 ELSE 1))
        /\ ~CheckUpdateQueue =>
              Dialogs(update_queue') =
                  Dialogs(update_queue)
                      + (IF \E t \in DOMAIN threads : WorkerExcept(t) THEN 1 ELSE 0) ]_vars

\* os.makedirs raised for the second of three files after the first was
\* encoded: the handler has run and its one dialog event waits in the queue
C11_Witness ==
    \E t \in DOMAIN threads :
        /\ threads[t].pc = "finally"
        /\ threads[t].terminal = "Failed"
        /\ threads[t].total_files = 3
        /\ Len(threads[t].tasks) = 1
        /\ threads[t].outputs # {}
        /\ threads[t].dialogs = 1
        /\ Dialogs(update_queue) = 1

\* C12: when the worker reads a line while the encoder runs, the task goes
\* on (the worker stays in the read loop, the counts are untouched); a line
\* 'out_time_ms=<n>' read with a probed duration d > 0 puts the progress
\* update min(100, 100 * (n / 1000000) / d), which is 50 for 5000000 and 100
\* for 20000000 at d = 10; any other line, and any line at d = 0, puts no
\* event.
C12_TelemetryLineProgress ==
    [][ \A t \in DOMAIN threads : \A ln \in TelemetryLines :
          (threads[t].pc = "poll" /\ ReadLine(t, ln)) =>
              LET w == threads[t]
                  d == w.duration
              IN  /\ threads'[t].pc = "poll"
                  /\ threads'[t].processed_files = w.processed_files
                  /\ threads'[t].failed_files = w.failed_files
                  /\ \A n \in TelemetryValues :
                        (ln = OutTimeMs \o IntToStr(n) /\ d > 0) =>
                           /\ update_queue' =
                                 Append(update_queue,
                                        ProgressEvent("file_progress",
                                            Min(100, (100 * n) \div (1000000 * d))))
                           /\ (n = 5000000 /\ d = 10 =>
                                  update_queue'[Len(update_queue')].value = 50)
                           /\ (n > 1000000 * d =>
                                  update_queue'[Len(update_queue')].value = 100)
                  /\ (ln \notin IntegerLines \/ d = 0) => UNCHANGED update_queue ]_vars

\* a line reporting 20 s of a 10 s video was read and the update 100 was put
C12_Witness ==
    \E t \in DOMAIN threads :
        /\ threads[t].pc = "poll"
        /\ threads[t].duration = 10
        /\ threads[t].lines = 1
        /\ threads[t].run.updates = 1
        /\ update_queue # <<>>
        /\ update_queue[Len(update_queue)] = ProgressEvent("file_progress", 100)

\* the ('ui_state', ...) events waiting in q
UiStateEvents(q) == Cardinality({ i \in DOMAIN q : q[i].type = "ui_state" })

\* C13: every batch leaves Running: is_processing becomes false and, with
\* the one ('ui_state', False) event its worker puts as it ends applied, the
\* Start button is enabled again with no worker alive; no other step puts
\* such an event; every accepted Start begins its batch with
\* cancel_requested false, and cancel_requested is set only by a cancel
\* accepted while a worker is alive.
C13_BatchEndsAndRestarts ==
    /\ is_processing ~> (~is_processing /\ Workers = {} /\ start_button = "normal")
    /\ [][ /\ ~CheckUpdateQueue =>
                UiStateEvents(update_queue') =
                    UiStateEvents(update_queue) + Cardinality(Workers \ Workers')
           /\ UiStateEvents(update_queue') <= 1
           /\ (UiStateEvents(update_queue') = 1 => Workers' = {} /\ ~is_processing')
           /\ (Workers' \ Workers # {} =>
                  /\ start_compression
                  /\ is_processing' /\ ~cancel_requested')
           /\ (start_button = "normal" => ~is_processing /\ Workers = {})
           /\ (cancel_requested' /\ ~cancel_requested =>
                  cancel_compression /\ Workers # {}) ]_vars

\* after a first batch has ended, a second one runs, not cancelled
C13_Witness ==
    /\ Len(threads) = 2
    /\ threads[1] = DeadThread
    /\ threads[2].pc = "prep"
    /\ is_processing
    /\ ~cancel_requested
    /\ start_button = "disabled"

\* the encoder can go on: it is between writes, or the pipe it writes to has
\* room
EncoderCanStep(w) ==
    \/ w.proc.at = "idle"
    \/ w.proc.at = "stdout" /\ w.proc.out_pipe < PipeCapacity
    \/ w.proc.at = "stderr" /\ w.proc.err_pipe < PipeCapacity

\* the worker can go on: it is not in readline, or a line waits in the pipe
WorkerCanStep(w) == w.pc # "readline" \/ w.proc.out_pipe > 0

\* C14: while an encoder runs, the encoder or the worker can take a step:
\* the two are never both blocked on the pipes.
C14_NoPipeDeadlock ==
    \A t \in DOMAIN threads :
        threads[t].proc.state = "running" =>
            EncoderCanStep(threads[t]) \/ WorkerCanStep(threads[t])

====
